---- MODULE Spec2Model ----
(***************************************************************************)
(* A model of pyciemss' optimisation-under-uncertainty engine:             *)
(*   - RandomDisplacementBounds, computeRisk and solveOUU                   *)
(*     (src/pyciemss/ouu/ouu.py)                                            *)
(*   - StaticParameterIntervention and _ParameterIntervention              *)
(*     (src/pyciemss/interruptions.py)                                      *)
(* Real numbers are modelled on an integer grid: one unit is a tenth, so    *)
(* the box [0, 1] is 0..10 and 0.3 * 10 units is 3 units.                   *)
(***************************************************************************)
EXTENDS Integers, Naturals, Sequences, FiniteSets, TLC

\* ------------------------------------------------------------------ bounds
\* Largest box corner coordinate of the grid (10 units = 1.0).
MaxCoord == 10
\* Largest explicit stepsize argument handed to RandomDisplacementBounds.
MaxStep == 2
\* How far outside the largest box an input point x may lie.
Margin == 2

\* Largest maxiter (number of basin hops) handed to solveOUU.
MaxIter == 2
\* Largest maxfeval (objective evaluations per local search) handed to solveOUU.
MaxFeval == 3

\* Most components of a candidate vector x handed to computeRisk.
MaxLen == 2
\* Largest num_samples (simulations per evaluation) of a computeRisk.
MaxSamples == 2
\* Most evaluations of one computeRisk instance that are followed.
MaxEvals == 3
\* Most draws other users of the random generator take between evaluations.
MaxOtherDraws == 2

\* An optional argument: Python's None when it is omitted, else a number.
None == [given |-> FALSE, value |-> 0]
Some(v) == [given |-> TRUE, value |-> v]

\* ----------------------------------------------------------------- helpers
Min2(a, b) == IF a <= b THEN a ELSE b
Max2(a, b) == IF a >= b THEN a ELSE b
Abs(a) == IF a >= 0 THEN a ELSE -a

\* floor(sqrt(n)) on the grid
ISqrt(n) == CHOOSE r \in 0..n : r * r <= n /\ (r + 1) * (r + 1) > n

RECURSIVE SumSq(_)
SumSq(v) == IF v = <<>> THEN 0 ELSE Head(v) * Head(v) + SumSq(Tail(v))

\* np.linalg.norm(v): the euclidean norm (truncated to the grid); the sum of
\* squares is computed once.
Norm(v) == CHOOSE r \in {ISqrt(n) : n \in {SumSq(v)}} : TRUE

\* xmax - xmin, component-wise
VecSub(a, b) == [i \in 1..Len(a) |-> a[i] - b[i]]

\* ------------------------------------------- RandomDisplacementBounds
VARIABLES
    rdb_pc,        \* "new": not constructed, "ready": constructed, "called"
    rdb_arg,       \* the stepsize argument of the constructor (None if omitted)
    rdb_xmin,      \* self.xmin
    rdb_xmax,      \* self.xmax
    rdb_stepsize,  \* self.stepsize
    rdb_x,         \* the argument of the last __call__
    rdb_xnew       \* the value returned by the last __call__

varsRDB == <<rdb_pc, rdb_arg, rdb_xmin, rdb_xmax, rdb_stepsize, rdb_x, rdb_xnew>>

\* The boxes (xmin, xmax) the constructor is tried on: xmin <= xmax.
Boxes ==
    {<<(<<a>>), (<<b>>)>> : a \in {0, MaxCoord \div 2}, b \in {MaxCoord \div 2, MaxCoord}}
    \cup {<< <<0, 0>>, <<6, 8>> >>, << <<0, 2>>, <<MaxCoord, 2>> >>}

\* The stepsize arguments: omitted (None), or an explicit number.
StepArgs == {None} \cup {Some(v) : v \in 0..MaxStep}

\* Points inside and outside the box.
Coords == (0 - Margin)..(MaxCoord + Margin)
Points(d) == [1..d -> Coords]

\* Python truthiness of the stepsize argument: None and 0 are falsy.
Truthy(v) == v.given /\ v.value # 0

\* 0.3 * np.linalg.norm(xmax - xmin)
DerivedStepsize(xmin, xmax) == (3 * Norm(VecSub(xmax, xmin))) \div 10

\* __init__: `if stepsize:` keeps the argument, else derives the stepsize.
StepsizeMutAlwaysDerived(xmin, xmax, stepsize) == DerivedStepsize(xmin, xmax)
InitStepsize(xmin, xmax, stepsize) ==
    IF Truthy(stepsize) THEN stepsize.value ELSE DerivedStepsize(xmin, xmax)

\* np.clip(a, lo, hi) == minimum(hi, maximum(a, lo)), component-wise
ClipMutNone(a, lo, hi) == a
ClipMutLowerOnly(a, lo, hi) == [i \in 1..Len(a) |-> Max2(a[i], lo[i])]
Clip(a, lo, hi) == [i \in 1..Len(a) |-> Min2(hi[i], Max2(a[i], lo[i]))]

\* np.random.uniform(-s, s, np.shape(x)): one draw per component
DrawsMutWide(s, d) == [1..d -> (0 - Abs(s) - 1)..(Abs(s) + 1)]
Draws(s, d) == [1..d -> (0 - Abs(s))..Abs(s)]

\* __call__(x) for one outcome u of the random draw
Displace(x, u, stepsize, xmin, xmax) ==
    Clip([i \in 1..Len(x) |-> x[i] + u[i]], xmin, xmax)

RDBIdle ==
    /\ rdb_pc = "new"
    /\ rdb_arg = None
    /\ rdb_xmin = <<>>
    /\ rdb_xmax = <<>>
    /\ rdb_stepsize = 0
    /\ rdb_x = <<>>
    /\ rdb_xnew = <<>>

\* RandomDisplacementBounds(xmin, xmax, stepsize)
RDBNew ==
    /\ rdb_pc = "new"
    /\ \E box \in Boxes, s \in StepArgs :
          /\ rdb_xmin' = box[1]
          /\ rdb_xmax' = box[2]
          /\ rdb_arg' = s
          /\ rdb_stepsize' = InitStepsize(box[1], box[2], s)
    /\ rdb_pc' = "ready"
    /\ UNCHANGED <<rdb_x, rdb_xnew>>

\* The points a call is given: any point of the box's dimension on the first
\* call, and then the point the previous call returned (a chain of hops).
CallInputs ==
    IF rdb_pc = "ready" THEN Points(Len(rdb_xmin)) ELSE {rdb_xnew}

\* take_step(x), for any outcome of the draw
RDBCall ==
    /\ rdb_pc \in {"ready", "called"}
    /\ \E x \in CallInputs :
          \E u \in Draws(rdb_stepsize, Len(x)) :
             /\ rdb_x' = x
             /\ rdb_xnew' = Displace(x, u, rdb_stepsize, rdb_xmin, rdb_xmax)
    /\ rdb_pc' = "called"
    /\ UNCHANGED <<rdb_arg, rdb_xmin, rdb_xmax, rdb_stepsize>>

\* ------------------------------------------------------------- solveOUU
VARIABLES
    ouu_pc,        \* "new", "built", "hopping", "done" ("aborted": solve() raised)
    ouu_kwargs,    \* the minimizer_kwargs argument of the constructor
    ouu_minimizer_kwargs, \* self.minimizer_kwargs
    ouu_used,      \* what solve() handed to basinhopping: method, tol, T
    ouu_nit,       \* local-search steps completed so far
    ouu_nsearch,   \* local searches run so far
    ouu_x0,        \* self.x0
    ouu_objfun,    \* self.objfun (the name of one of the objectives below)
    ouu_cons,      \* self.constraints (the name of a constraint set below)
    ouu_maxiter,   \* self.maxiter
    ouu_maxfeval,  \* self.maxfeval
    ouu_bounds,    \* self.u_bounds: <<lower, upper>>
    ouu_step,      \* take_step.stepsize (basinhopping adapts it)
    ouu_x,         \* basinhopping's current point
    ouu_fun,       \* the objective at the current point
    ouu_best,      \* the lowest local minimum stored so far
    ouu_nstep,     \* basin hops done
    ouu_proposal,  \* the last point take_step proposed
    ouu_nfev,      \* objective evaluations of the last local search
    ouu_pbar,      \* pbar.update(1) calls so far
    ouu_result     \* the value solve() returned

varsOUU == <<ouu_pc, ouu_x0, ouu_objfun, ouu_cons, ouu_maxiter, ouu_maxfeval,
             ouu_bounds, ouu_step, ouu_x, ouu_fun, ouu_best, ouu_nstep,
             ouu_proposal, ouu_nfev, ouu_pbar, ouu_result,
             ouu_kwargs, ouu_minimizer_kwargs, ouu_used, ouu_nit, ouu_nsearch>>

\* A minimizer_kwargs dict: the local-search method and its tolerance (tol is
\* the exponent: 5 stands for 1e-5). NoKwargs is Python's None.
Kwargs(method, tol) == [given |-> TRUE, method |-> method, tol |-> tol]
NoKwargs == [given |-> FALSE, method |-> "none", tol |-> 0]
\* The constructor's default, and a caller's own choice.
DefaultKwargs == Kwargs("COBYLA", 5)
KwargsArgs == {DefaultKwargs, Kwargs("SLSQP", 3)}

\* __init__: self.minimizer_kwargs = minimizer_kwargs.update({...});
\* dict.update changes the dict in place and returns None.
DictUpdate(d) == NoKwargs

\* solve(): minimizer_kwargs = dict(constraints=self.constraints,
\* method="COBYLA", tol=1e-5, callback=update_progress, options={...}), built
\* anew without reading self.minimizer_kwargs; basinhopping(..., T=1.5, ...).
T == 15
SolveKwargs(self_kwargs) == [method |-> "COBYLA", tol |-> 5, T |-> T]
NoUsed == [method |-> "none", tol |-> 0, T |-> 0]

\* basinhopping(..., niter=self.maxiter, ...): the number of hops
NiterMutOneMore(maxiter) == maxiter + 1
Niter(maxiter) == maxiter

\* pbar = tqdm(total=self.maxfeval * (self.maxiter + 1))
PbarTotal(maxfeval, maxiter) == maxfeval * (maxiter + 1)

\* update_progress(xk): pbar.update(1); it returns None and raises nothing.
UpdateMutTwice(pb) == [n |-> pb.n + 2, raised |-> FALSE, total |-> pb.total]
update_progress(pb) == [n |-> pb.n + 1, raised |-> FALSE, total |-> pb.total]

\* The local search calls the callback once after each of its k steps; an
\* exception raised by the callback ends the search.
RECURSIVE RunCallbacks(_, _)
RunCallbacks(pb, k) ==
    IF k = 0 \/ pb.raised THEN pb ELSE RunCallbacks(update_progress(pb), k - 1)

RECURSIVE SumVec(_)
SumVec(v) == IF v = <<>> THEN 0 ELSE Head(v) + SumVec(Tail(v))

\* The objectives solve() is tried on, as functions of the policy x.
Objectives == {"const", "down", "up", "bowl"}
ObjValue(f, x) ==
    CASE f = "const" -> 0
      [] f = "down"  -> 0 - SumVec(x)
      [] f = "up"    -> SumVec(x)
      [] f = "bowl"  -> SumVec([i \in 1..Len(x) |-> Abs(x[i] - 5)])

\* The constraint sets solve() is tried on: none, or the box bounds written
\* as inequality constraints (x - lower >= 0, upper - x >= 0). The value is
\* the total violation, 0 when x is feasible.
ConstraintSets == {"none", "box"}
Violation(c, x, bounds) ==
    IF c = "none" THEN 0
    ELSE SumVec([i \in 1..Len(x) |->
                   Max2(0, bounds[1][i] - x[i]) + Max2(0, x[i] - bounds[2][i])])

\* "rhobeg": 0.1 * np.linalg.norm(u_bounds[1, :] - u_bounds[0, :])
Rhobeg(bounds) == Norm(VecSub(bounds[2], bounds[1])) \div 10

\* The trial points around p: each coordinate moved by rhobeg, up then down.
RECURSIVE TrialsFrom(_, _, _)
TrialsFrom(p, rho, i) ==
    IF i > Len(p) THEN <<>>
    ELSE << [p EXCEPT ![i] = p[i] + rho], [p EXCEPT ![i] = p[i] - rho] >>
         \o TrialsFrom(p, rho, i + 1)

\* A trial point c replaces p when it violates the constraints less, or as
\* little with a lower objective.
Improves(c, p, f, cons, bounds) ==
    \/ Violation(cons, c, bounds) < Violation(cons, p, bounds)
    \/ /\ Violation(cons, c, bounds) = Violation(cons, p, bounds)
       /\ ObjValue(f, c) < ObjValue(f, p)

\* scipy.optimize.minimize(method="COBYLA", options={"maxiter": maxfeval}),
\* a derivative-free descent: the start point is evaluated, then one trial
\* point per evaluation, until no trial point improves (success) or maxfeval
\* evaluations are spent. nit counts the accepted steps (one callback each).
RECURSIVE Descend(_, _, _, _, _, _, _, _)
Descend(p, pending, nfev, nit, f, cons, bounds, maxfeval) ==
    IF pending = <<>>
    THEN [x |-> p, fun |-> ObjValue(f, p), nfev |-> nfev, nit |-> nit, success |-> TRUE]
    ELSE IF nfev >= maxfeval
    THEN [x |-> p, fun |-> ObjValue(f, p), nfev |-> nfev, nit |-> nit, success |-> FALSE]
    ELSE IF Improves(Head(pending), p, f, cons, bounds)
    THEN Descend(Head(pending), TrialsFrom(Head(pending), Rhobeg(bounds), 1),
                 nfev + 1, nit + 1, f, cons, bounds, maxfeval)
    ELSE Descend(p, Tail(pending), nfev + 1, nit, f, cons, bounds, maxfeval)

LocalSearch(start, f, cons, bounds, maxfeval) ==
    Descend(start, TrialsFrom(start, Rhobeg(bounds), 1), 1, 0, f, cons, bounds, maxfeval)

\* take_step = RandomDisplacementBounds(self.u_bounds[0, :], self.u_bounds[1, :])
TakeStepStepsize(bounds) == InitStepsize(bounds[1], bounds[2], None)

\* basinhopping(..., interval=2): every `interval` hops the stepsize of
\* take_step is adapted by the factor 0.9, up or down with the acceptance rate.
Interval == 2
AdaptedSteps(step, nstep) ==
    IF nstep % Interval = 0 THEN {(step * 9) \div 10, (step * 10) \div 9} ELSE {step}

\* basinhopping's Storage.update: keep the new minimum when it succeeded and
\* is lower, or when the stored one had failed.
StorageUpdate(best, minres) ==
    IF minres.success /\ (minres.fun < best.fun \/ ~best.success) THEN minres ELSE best

\* The inputs solve() is tried on: the box, x0 (inside or outside it), the
\* objective, the constraints, maxiter and maxfeval.
SolveBoxes == {<< <<0>>, <<MaxCoord>> >>, << <<0, 0>>, <<6, 8>> >>}
StartPoints(bounds) ==
    IF Len(bounds[1]) = 1 THEN {<<0 - Margin>>, <<5>>, <<MaxCoord + Margin>>}
    ELSE {<<3, 4>>, <<6 + Margin, 4>>}

OUUIdle ==
    /\ ouu_pc = "new"
    /\ ouu_x0 = <<>>
    /\ ouu_objfun = "const"
    /\ ouu_cons = "none"
    /\ ouu_maxiter = 0
    /\ ouu_maxfeval = 1
    /\ ouu_bounds = << <<>>, <<>> >>
    /\ ouu_step = 0
    /\ ouu_x = <<>>
    /\ ouu_fun = 0
    /\ ouu_best = [x |-> <<>>, fun |-> 0, nfev |-> 0, nit |-> 0, success |-> FALSE]
    /\ ouu_nstep = 0
    /\ ouu_proposal = <<>>
    /\ ouu_nfev = 0
    /\ ouu_pbar = 0
    /\ ouu_result = <<>>
    /\ ouu_kwargs = DefaultKwargs
    /\ ouu_minimizer_kwargs = NoKwargs
    /\ ouu_used = NoUsed
    /\ ouu_nit = 0
    /\ ouu_nsearch = 0

\* solveOUU(x0, objfun, constraints, maxfeval=..., maxiter=..., u_bounds=...)
OUUNew ==
    /\ ouu_pc = "new"
    /\ \E b \in SolveBoxes :
          /\ ouu_bounds' = b
          /\ ouu_x0' \in StartPoints(b)
    /\ ouu_objfun' \in Objectives
    /\ ouu_cons' \in ConstraintSets
    /\ ouu_maxiter' \in 0..MaxIter
    /\ ouu_maxfeval' \in 1..MaxFeval
    /\ \E kw \in KwargsArgs :
          /\ ouu_kwargs' = kw
          /\ ouu_minimizer_kwargs' = DictUpdate(kw)
    /\ ouu_pc' = "built"
    /\ UNCHANGED <<ouu_step, ouu_x, ouu_fun, ouu_best, ouu_nstep, ouu_proposal,
                   ouu_nfev, ouu_pbar, ouu_result, ouu_used, ouu_nit, ouu_nsearch>>

\* solve(), up to basinhopping's initial minimisation from x0
OUUSolveStart ==
    /\ ouu_pc = "built"
    /\ ouu_used' = SolveKwargs(ouu_minimizer_kwargs)
    /\ LET minres == LocalSearch(ouu_x0, ouu_objfun, ouu_cons, ouu_bounds, ouu_maxfeval)
           pb == RunCallbacks([n |-> 0, raised |-> FALSE,
                               total |-> PbarTotal(ouu_maxfeval, ouu_maxiter)],
                              minres.nit)
       IN /\ ouu_x' = minres.x
          /\ ouu_fun' = minres.fun
          /\ ouu_best' = minres
          /\ ouu_nfev' = minres.nfev
          /\ ouu_nit' = minres.nit
          /\ ouu_pbar' = pb.n
          /\ ouu_pc' = IF pb.raised THEN "aborted" ELSE "hopping"
    /\ ouu_step' = TakeStepStepsize(ouu_bounds)
    /\ ouu_nstep' = 0
    /\ ouu_nsearch' = 1
    /\ UNCHANGED <<ouu_x0, ouu_objfun, ouu_cons, ouu_maxiter, ouu_maxfeval,
                   ouu_bounds, ouu_proposal, ouu_result, ouu_kwargs,
                   ouu_minimizer_kwargs>>

\* One basin hop: take_step from the current point, a local search from the
\* proposal, and the Metropolis test (a lower or equal minimum is accepted,
\* a higher one by chance).
OUUHop ==
    /\ ouu_pc = "hopping"
    /\ ouu_nstep < Niter(ouu_maxiter)
    /\ ouu_nstep' = ouu_nstep + 1
    /\ ouu_nsearch' = ouu_nsearch + 1
    /\ \E u \in Draws(ouu_step, Len(ouu_x)) :
       \E prop \in {Displace(ouu_x, u, ouu_step, ouu_bounds[1], ouu_bounds[2])} :
          /\ ouu_proposal' = prop
          /\ \E minres \in {LocalSearch(prop, ouu_objfun, ouu_cons, ouu_bounds,
                                        ouu_maxfeval)} :
             \E pb \in {RunCallbacks([n |-> ouu_pbar, raised |-> FALSE,
                                       total |-> PbarTotal(ouu_maxfeval, ouu_maxiter)],
                                      minres.nit)} :
                /\ ouu_nfev' = minres.nfev
                /\ ouu_nit' = ouu_nit + minres.nit
                /\ ouu_pbar' = pb.n
                /\ ouu_pc' = IF pb.raised THEN "aborted" ELSE "hopping"
                /\ \E chance \in BOOLEAN :
                      LET accept == minres.fun <= ouu_fun \/ chance
                      IN /\ ouu_x' = IF accept THEN minres.x ELSE ouu_x
                         /\ ouu_fun' = IF accept THEN minres.fun ELSE ouu_fun
                         /\ ouu_best' = IF accept THEN StorageUpdate(ouu_best, minres)
                                        ELSE ouu_best
    /\ ouu_step' \in AdaptedSteps(ouu_step, ouu_nstep + 1)
    /\ UNCHANGED <<ouu_x0, ouu_objfun, ouu_cons, ouu_maxiter, ouu_maxfeval,
                   ouu_bounds, ouu_result, ouu_kwargs, ouu_minimizer_kwargs, ouu_used>>

\* basinhopping returns the lowest stored minimum after niter hops
OUUReturn ==
    /\ ouu_pc = "hopping"
    /\ ouu_nstep >= Niter(ouu_maxiter)
    /\ ouu_result' = ouu_best.x
    /\ ouu_pc' = "done"
    /\ UNCHANGED <<ouu_x0, ouu_objfun, ouu_cons, ouu_maxiter, ouu_maxfeval,
                   ouu_bounds, ouu_step, ouu_x, ouu_fun, ouu_best, ouu_nstep,
                   ouu_proposal, ouu_nfev, ouu_pbar, ouu_kwargs,
                   ouu_minimizer_kwargs, ouu_used, ouu_nit, ouu_nsearch>>

\* --------------------------------------- interventions and computeRisk
VARIABLES
    cr_pc,            \* where the evaluation (or the simulation) stands
    cr_mode,          \* "risk": computeRisk evaluations, "direct": one simulate
    cr_interventions, \* self.interventions: (time, parameter) in dict order
    cr_nsamples,      \* self.num_samples
    cr_x,             \* the argument of the running __call__
    cr_handlers,      \* static_parameter_intervention_handlers
    cr_samples,       \* the trajectories Predictive collected so far
    cr_result,        \* what the last __call__ returned (None if it raised)
    cr_error,         \* the exception the last __call__ raised ("none" if none)
    cr_nevals,        \* evaluations finished
    cr_memo,          \* one earlier evaluation, remembered for comparison
    cr_requests,      \* direct mode: the (time, intervention) pairs asked for
    rng,              \* the state of the global random generator
    rng_other,        \* draws taken by other users of the generator
    stack,            \* the handler stack: the solver and handler scopes entered
    depth,            \* scopes of the running simulation not yet left
    attr,             \* the model instance's attributes (its parameters)
    attr0,            \* the parameters the running simulation started with
    sim_t,            \* the solver's current time
    sim_s,            \* the simulation state
    traj,             \* the states logged at the logging times
    fired,            \* the callbacks run in this simulation
    steps,            \* the parameters each integration step used
    exc               \* the exception in flight inside wrapped_model

varsCR == <<cr_pc, cr_mode, cr_interventions, cr_nsamples, cr_x, cr_handlers,
            cr_samples, cr_result, cr_error, cr_nevals, cr_memo, cr_requests,
            rng, rng_other>>
varsSim == <<stack, depth, attr, attr0, sim_t, sim_s, traj, fired, steps, exc>>

\* A caller that runs the same simulation twice from the same seed, first
\* under static interventions and then with each time expressed as an event
\* function (tests/test_interfaces.py), keeps the outcome of the first run.
VARIABLES
    twin              \* the seed of the runs and the outcome of the first run

varsTwin == <<twin>>

\* ---- the risk measure: alpha_superquantile(z, alpha)
VARIABLES
    rm_pc,            \* "idle", "ready", "first" (the first level is done), "done"
    rm_sample,        \* the sample z
    rm_a1,            \* the lower level, in tenths
    rm_a2,            \* the higher level, in tenths
    rm_r1,            \* alpha_superquantile(z, a1), or None
    rm_r2             \* alpha_superquantile(z, a2), or None

varsRisk == <<rm_pc, rm_sample, rm_a1, rm_a2, rm_r1, rm_r2>>

\* The simulated interval and the logging step: logging_times is
\* torch.arange(start_time + logging_step_size, end_time, logging_step_size).
StartTime == 1
EndTime == 5
LoggingStep == 1
LoggingTimes == {t \in (StartTime + 1)..(EndTime - 1) : (t - StartTime) % LoggingStep = 0}

\* The parameters the model instance carries as attributes.
ParamNames == {"beta", "gamma"}

\* ---- chirho.interventional.ops.intervene and the assignments
Const(v) == [kind |-> "const", value |-> v, fn |-> "none"]
Fn(f) == [kind |-> "fn", value |-> 0, fn |-> f]

\* The caller's parameter-dependent interventions, e.g. lambda p: p + 1.0
ApplyFn(f, old) ==
    CASE f = "inc" -> old + 1
      [] f = "dbl" -> 2 * old
      [] OTHER -> old

\* intervene(old_parameter, intervention_assignment)
InterveneMutConstOnly(old, a) == a.value
InterveneMutKeepOld(old, a) == old
Intervene(old, a) == IF a.kind = "fn" THEN ApplyFn(a.fn, old) ELSE a.value

\* ---- _ParameterIntervention.callback
\* for parameter_name, intervention_assignment in intervention.items():
\*     getattr, intervene, setattr; an unknown name raises AttributeError and
\*     the attributes written before it stay written.
RECURSIVE CallbackFrom(_, _, _)
CallbackFrom(obj, intervention, i) ==
    IF i > Len(intervention) THEN [attr |-> obj, error |-> "none"]
    ELSE LET name == intervention[i][1]
             assignment == intervention[i][2]
         IN IF name \notin DOMAIN obj
            THEN [attr |-> obj, error |-> "AttributeError"]
            ELSE CallbackFrom([obj EXCEPT ![name] = Intervene(obj[name], assignment)],
                              intervention, i + 1)

CallbackMutFirstOnly(obj, intervention) ==
    IF intervention = <<>> \/ intervention[1][1] \notin DOMAIN obj
    THEN [attr |-> obj, error |-> "none"]
    ELSE [attr |-> [obj EXCEPT ![intervention[1][1]] =
                        Intervene(obj[intervention[1][1]], intervention[1][2])],
          error |-> "none"]
CallbackMutNoWrite(obj, intervention) == [attr |-> obj, error |-> "none"]
CallbackMutAllAttributes(obj, intervention) ==
    IF intervention = <<>> \/ intervention[1][1] \notin DOMAIN obj
    THEN CallbackFrom(obj, intervention, 1)
    ELSE [attr |-> [n \in DOMAIN obj |-> Intervene(obj[n], intervention[1][2])],
          error |-> CallbackFrom(obj, intervention, 1).error]
CallbackMutAtomic(obj, intervention) ==
    IF \E i \in 1..Len(intervention) : intervention[i][1] \notin DOMAIN obj
    THEN [attr |-> obj, error |-> "AttributeError"]
    ELSE CallbackFrom(obj, intervention, 1)
Callback(obj, intervention) == CallbackFrom(obj, intervention, 1)

\* ---- the events and the two kinds of parameter intervention
\* The caller's event functions (time, state) -> number: time - at, as in
\* the tests, and state - at, as in the docstring of DynamicParameterIntervention.
TimeMinus(at) == [kind |-> "time", at |-> at]
StateMinus(at) == [kind |-> "state", at |-> at]
NoFn == [kind |-> "none", at |-> 0]
EventValue(f, t, s) == IF f.kind = "time" THEN t - f.at ELSE s - f.at

\* chirho's StaticEvent(time) and ZeroEvent(event_fn)
StaticEvent(time) == [event |-> "static", time |-> time, fn |-> NoFn]
ZeroEvent(event_fn) == [event |-> "zero", time |-> 0, fn |-> event_fn]

\* _ParameterIntervention(event, intervention): the callback registered on
\* the event
ParameterIntervention(event, intervention) ==
    [event |-> event.event, time |-> event.time, fn |-> event.fn,
     intervention |-> intervention]

\* StaticParameterIntervention(time, intervention):
\* _ParameterIntervention(StaticEvent(time), intervention)
StaticMutLate(time, intervention) ==
    ParameterIntervention(StaticEvent(time + 1), intervention)
StaticParameterIntervention(time, intervention) ==
    ParameterIntervention(StaticEvent(time), intervention)

\* DynamicParameterIntervention(event_fn, intervention):
\* _ParameterIntervention(ZeroEvent(event_fn), intervention)
DynamicMutNoAssignment(event_fn, intervention) ==
    ParameterIntervention(ZeroEvent(event_fn), <<>>)
DynamicParameterIntervention(event_fn, intervention) ==
    ParameterIntervention(ZeroEvent(event_fn), intervention)

\* ---- computeRisk.propagate_uncertainty: the handlers built from x
\* for time, param in self.interventions.items(): one handler with x[count];
\* x[count] raises IndexError when x is too short.
RECURSIVE BuildFrom(_, _, _)
BuildFrom(interventions, x, count) ==
    IF count > Len(interventions) THEN [handlers |-> <<>>, error |-> "none"]
    ELSE IF count > Len(x) THEN [handlers |-> <<>>, error |-> "IndexError"]
    ELSE LET rest == BuildFrom(interventions, x, count + 1)
             h == StaticParameterIntervention(
                      interventions[count][1],
                      << <<interventions[count][2], Const(x[count])>> >>)
         IN [handlers |-> IF rest.error = "none" THEN <<h>> \o rest.handlers ELSE <<>>,
             error |-> rest.error]

BuildMutNoCount(interventions, x) ==
    IF interventions # <<>> /\ x = <<>> THEN [handlers |-> <<>>, error |-> "IndexError"]
    ELSE [handlers |-> [i \in 1..Len(interventions) |->
                          StaticParameterIntervention(
                              interventions[i][1],
                              << <<interventions[i][2], Const(x[1])>> >>)],
          error |-> "none"]
BuildHandlers(interventions, x) == BuildFrom(interventions, x, 1)

\* pyro.set_rng_seed(0): the generator's state after seeding with 0
SeedMutKeep(r) == r
SetRngSeed(r) == 0

\* The generator's states cycle with this period in the model.
RngPeriod == 5
\* A draw of a parameter's prior when the generator is in state r.
PriorDraw(r) == 1 + (r % 2)
RngNext(r) == (r + 1) % RngPeriod

\* The model collaborator draws every parameter anew when a simulation
\* starts: beta first, then gamma.
InstantiateMutKeepWritten(r) == [attr |-> attr, rng |-> RngNext(RngNext(r))]
InstantiateParameters(r) ==
    [attr |-> [n \in ParamNames |->
                 IF n = "beta" THEN PriorDraw(r) ELSE PriorDraw(RngNext(r))],
     rng |-> RngNext(RngNext(r))]

\* The model's derivative under its current parameters; a non-positive
\* parameter is rejected by the sampling machinery.
ParamsValid(a) == \A n \in ParamNames : a[n] > 0
Deriv(a) == a["beta"] + 3 * a["gamma"]

\* The trajectory of the same model without any handler, from parameters a:
\* the states at the logging times.
RECURSIVE RefTrajFrom(_, _, _)
RefTrajFrom(a, t, s) ==
    IF t >= EndTime THEN <<>>
    ELSE (IF t + 1 \in LoggingTimes THEN <<s + Deriv(a)>> ELSE <<>>)
         \o RefTrajFrom(a, t + 1, s + Deriv(a))
RefTraj(a) == RefTrajFrom(a, StartTime, 0)

\* The quantity of interest of one trajectory (the caller's qoi): its last
\* logged state; and the caller's risk measure: the largest of them.
RECURSIVE MaxOf(_)
MaxOf(q) == IF Len(q) = 1 THEN q[1] ELSE Max2(q[1], MaxOf(Tail(q)))
QoI(samples) == [i \in 1..Len(samples) |-> samples[i][Len(samples[i])]]
RiskMeasure(q) == MaxOf(q)

\* __call__: qoi and risk_measure run on the samples propagate_uncertainty
\* returned; an exception it raised leaves __call__ as it is (nothing catches
\* it), and no value is returned.
CallMutSkipQoI(samples, e) ==
    IF e = "none"
    THEN [result |-> Some(RiskMeasure([i \in 1..Len(samples) |-> samples[i][1]])),
          error |-> "none"]
    ELSE [result |-> None, error |-> e]
CallMutSwallow(samples, e) ==
    [result |-> Some(IF e = "none" THEN RiskMeasure(QoI(samples)) ELSE 0),
     error |-> "none"]
CallReturn(samples, e) ==
    IF e = "none"
    THEN [result |-> Some(RiskMeasure(QoI(samples))), error |-> "none"]
    ELSE [result |-> None, error |-> e]

\* ---- the scopes of wrapped_model
SolverScope ==
    [kind |-> "solver", eval |-> 0, index |-> 0, event |-> "none", time |-> 0,
     fn |-> NoFn, intervention |-> <<>>]
HandlerScope(e, i, h) ==
    [kind |-> "handler", eval |-> e, index |-> i, event |-> h.event, time |-> h.time,
     fn |-> h.fn, intervention |-> h.intervention]

\* Leaving the innermost scope (the with statement and the ExitStack leave
\* their scopes on return and on an exception alike).
LeaveScopeMutOutermostFirst(st, e) == Tail(st)
LeaveScopeMutOnReturnOnly(st, e) == IF e = "none" THEN SubSeq(st, 1, Len(st) - 1) ELSE st
LeaveScope(st, e) == SubSeq(st, 1, Len(st) - 1)

\* The handlers on the stack that have not fired in this simulation.
UnfiredMutForgetful == {i \in 1..Len(stack) : stack[i].kind = "handler"}
Unfired == {i \in 1..Len(stack) :
              /\ stack[i].kind = "handler"
              /\ \A k \in 1..Len(fired) : fired[k].pos # i}
\* A static event fires when the solver reaches its time inside the interval.
StaticDue(t) ==
    {i \in Unfired : stack[i].event = "static" /\ stack[i].time = t
                      /\ StartTime < t /\ t < EndTime}
\* A zero event fires when its event function has changed sign (or reached
\* zero from a non-zero value) over the integration step that ended at t; it
\* fires once for that crossing.
Crossed(f, t) ==
    /\ steps # <<>>
    /\ LET before == EventValue(f, steps[Len(steps)].time, steps[Len(steps)].state)
           now == EventValue(f, t, sim_s)
       IN before # 0 /\ (now = 0 \/ (before < 0) # (now < 0))
ZeroDue(t) ==
    {i \in 1..Len(stack) :
        /\ stack[i].kind = "handler" /\ stack[i].event = "zero"
        /\ StartTime < t /\ t < EndTime
        /\ Crossed(stack[i].fn, t)
        /\ \A k \in 1..Len(fired) : ~(fired[k].pos = i /\ fired[k].time = t)}
Due(t) == StaticDue(t) \cup ZeroDue(t)

\* The candidate vectors: every length up to MaxLen over these values.
XValues == {0, 2}
Candidates == UNION {[1..n -> XValues] : n \in 0..MaxLen}

\* The interventions mappings a computeRisk is constructed with (the keys of
\* the dict are the times, so the times differ).
InterventionMaps ==
    { << <<StartTime + 1, "beta">> >>,
      << <<StartTime + 1, "beta">>, <<StartTime + 2, "gamma">> >>,
      << <<EndTime + 1, "gamma">>, <<StartTime - 1, "beta">> >> }

\* The handler lists a simulation is run under directly (the docstring's
\* usage): one or several handlers, constants and functions, equal times,
\* times outside the interval, an unknown target.
Request(time, intervention) == [time |-> time, intervention |-> intervention]
DirectRequests ==
    { << Request(StartTime + 1, << <<"beta", Const(3)>> >>) >>,
      << Request(StartTime + 1, << <<"beta", Fn("inc")>>, <<"gamma", Const(3)>> >>) >>,
      << Request(StartTime + 1, << <<"beta", Const(3)>> >>),
         Request(StartTime + 1, << <<"beta", Fn("dbl")>> >>) >>,
      << Request(StartTime + 2, << <<"gamma", Fn("dbl")>> >>),
         Request(StartTime + 1, << <<"gamma", Fn("inc")>> >>) >>,
      << Request(StartTime - 1, << <<"beta", Const(3)>> >>),
         Request(EndTime + 1, << <<"gamma", Const(3)>> >>) >>,
      << Request(StartTime + 1, << <<"beta", Const(0)>> >>) >>,
      << Request(StartTime + 2, << <<"beta", Const(3)>> >>) >>,
      << Request(EndTime + 1, << <<"gamma", Const(3)>> >>),
         Request(StartTime + 1, << <<"gamma", Fn("inc")>> >>) >>,
      << Request(StartTime + 1,
           << <<"beta", Const(3)>>, <<"delta", Const(1)>>, <<"gamma", Const(3)>> >>) >> }
\* The handlers the caller builds for its requests.
DirectHandlers(reqs) ==
    [i \in 1..Len(reqs) |-> StaticParameterIntervention(reqs[i].time, reqs[i].intervention)]

NoAttr == [n \in ParamNames |-> 1]

\* The requests of the twin runs: an event function and an assignment each;
\* `time` is the time the event function time - at stands for.
DynRequest(event_fn, intervention) ==
    [time |-> IF event_fn.kind = "time" THEN event_fn.at ELSE 0,
     fn |-> event_fn, intervention |-> intervention]
DynRequests ==
    { << DynRequest(TimeMinus(StartTime + 1), << <<"beta", Const(3)>> >>) >>,
      << DynRequest(TimeMinus(StartTime + 2),
                    << <<"beta", Fn("inc")>>, <<"gamma", Const(3)>> >>) >>,
      << DynRequest(TimeMinus(StartTime + 2), << <<"gamma", Fn("dbl")>> >>),
         DynRequest(TimeMinus(StartTime + 1), << <<"gamma", Fn("inc")>> >>) >>,
      << DynRequest(TimeMinus(EndTime + 1), << <<"gamma", Const(3)>> >>),
         DynRequest(TimeMinus(StartTime + 3), << <<"beta", Fn("dbl")>> >>) >>,
      << DynRequest(TimeMinus(StartTime - 1), << <<"beta", Const(3)>> >>) >>,
      << DynRequest(TimeMinus(StartTime + 1), << <<"beta", Const(0)>> >>) >>,
      << DynRequest(StateMinus(6), << <<"beta", Const(3)>> >>) >> }
\* The requests that name a time can be run under static handlers too.
AllTimed(reqs) == \A i \in 1..Len(reqs) : reqs[i].fn.kind = "time"
StaticHandlers(reqs) ==
    [i \in 1..Len(reqs) |-> StaticParameterIntervention(reqs[i].time, reqs[i].intervention)]
DynamicHandlers(reqs) ==
    [i \in 1..Len(reqs) |-> DynamicParameterIntervention(reqs[i].fn, reqs[i].intervention)]

\* What a run leaves: the firings (handler, time, values before and after).
FiredSummary ==
    [k \in 1..Len(fired) |->
        [index |-> fired[k].index, time |-> fired[k].time,
         before |-> fired[k].before, after |-> fired[k].after]]
NoTwin == [set |-> FALSE, seed |-> 0, traj |-> <<>>, attr |-> NoAttr, attr0 |-> NoAttr,
           fired |-> <<>>, error |-> "none"]
TwinIdle == twin = NoTwin

\* The remembered evaluation: none yet, or the argument and the outcome of
\* an evaluation, with the number of evaluations finished when it ended and
\* the number of later evaluations of another argument.
NoMemo == [set |-> FALSE, x |-> <<>>, result |-> None, error |-> "none",
           at |-> 0, others |-> 0]
\* After an evaluation of x ends, either it becomes the remembered one or the
\* remembered one is kept.
Remember(memo, x, result, error, n) ==
    { [set |-> TRUE, x |-> x, result |-> result, error |-> error, at |-> n, others |-> 0],
      IF memo.set /\ memo.x # x THEN [memo EXCEPT !.others = 1] ELSE memo }

SimIdle ==
    /\ stack = <<>>
    /\ depth = 0
    /\ attr = NoAttr
    /\ attr0 = NoAttr
    /\ sim_t = StartTime
    /\ sim_s = 0
    /\ traj = <<>>
    /\ fired = <<>>
    /\ steps = <<>>
    /\ exc = "none"

CRIdle ==
    /\ cr_pc = "off"
    /\ cr_mode = "risk"
    /\ cr_interventions = <<>>
    /\ cr_nsamples = 1
    /\ cr_x = <<>>
    /\ cr_handlers = <<>>
    /\ cr_samples = <<>>
    /\ cr_result = None
    /\ cr_error = "none"
    /\ cr_nevals = 0
    /\ cr_memo = NoMemo
    /\ cr_requests = <<>>
    /\ rng = 0
    /\ rng_other = 0

\* computeRisk(model, interventions, qoi, end_time, logging_step_size, ...)
CRNew ==
    /\ cr_pc = "off"
    /\ cr_interventions' \in InterventionMaps
    /\ cr_nsamples' \in 1..MaxSamples
    /\ cr_pc' = "idle"
    /\ UNCHANGED <<cr_mode, cr_x, cr_handlers, cr_samples, cr_result, cr_error,
                   cr_nevals, cr_memo, cr_requests, rng, rng_other>>
    /\ UNCHANGED varsSim

\* Another user of the global random generator draws from it.
RngUse ==
    /\ cr_pc = "idle"
    /\ rng_other < MaxOtherDraws
    /\ rng' = RngNext(rng)
    /\ rng_other' = rng_other + 1
    /\ UNCHANGED <<cr_pc, cr_mode, cr_interventions, cr_nsamples, cr_x, cr_handlers,
                   cr_samples, cr_result, cr_error, cr_nevals, cr_memo, cr_requests>>
    /\ UNCHANGED varsSim

\* __call__(x), up to the start of the sampling: the seed is reset, x is made
\* a vector and the handlers are built; a too short x raises IndexError.
CRCall ==
    /\ cr_pc = "idle"
    /\ cr_nevals < MaxEvals
    /\ \E x \in Candidates :
          LET built == BuildHandlers(cr_interventions, x)
          IN /\ cr_x' = x
             /\ rng' = SetRngSeed(rng)
             /\ IF built.error = "none"
                THEN /\ cr_handlers' = built.handlers
                     /\ cr_pc' = "sampling"
                     /\ cr_result' = None
                     /\ cr_error' = "none"
                     /\ UNCHANGED <<cr_nevals, cr_memo>>
                ELSE LET out == CallReturn(<<>>, built.error)
                     IN /\ cr_handlers' = <<>>
                        /\ cr_pc' = "idle"
                        /\ cr_result' = out.result
                        /\ cr_error' = out.error
                        /\ cr_nevals' = cr_nevals + 1
                        /\ cr_memo' \in Remember(cr_memo, x, out.result, out.error,
                                                 cr_nevals + 1)
    /\ cr_samples' = <<>>
    /\ UNCHANGED <<cr_mode, cr_interventions, cr_nsamples, cr_requests, rng_other>>
    /\ UNCHANGED varsSim

\* wrapped_model: with TorchDiffEq(method=..., options=...)
SimEnterSolver ==
    /\ cr_pc = "sampling"
    /\ Len(cr_samples) < cr_nsamples
    /\ stack' = Append(stack, SolverScope)
    /\ depth' = 1
    /\ exc' = "none"
    /\ cr_pc' = "entering"
    /\ fired' = <<>>
    /\ steps' = <<>>
    /\ traj' = <<>>
    /\ UNCHANGED <<attr, attr0, sim_t, sim_s>>
    /\ UNCHANGED <<cr_mode, cr_interventions, cr_nsamples, cr_x, cr_handlers,
                   cr_samples, cr_result, cr_error, cr_nevals, cr_memo, cr_requests, rng, rng_other>>

\* for handler in static_parameter_intervention_handlers:
\*     stack.enter_context(handler)
SimEnterHandler ==
    /\ cr_pc = "entering"
    /\ depth - 1 < Len(cr_handlers)
    /\ stack' = Append(stack, HandlerScope(cr_nevals, depth, cr_handlers[depth]))
    /\ depth' = depth + 1
    /\ UNCHANGED <<attr, attr0, sim_t, sim_s, traj, fired, steps, exc>>
    /\ UNCHANGED varsCR

\* self.model(start_time, end_time, ...): the model draws its parameters and
\* starts from its initial state
SimModelStart ==
    /\ cr_pc = "entering"
    /\ depth - 1 = Len(cr_handlers)
    /\ LET inst == InstantiateParameters(rng)
       IN /\ attr' = inst.attr
          /\ attr0' = inst.attr
          /\ rng' = inst.rng
    /\ sim_t' = StartTime
    /\ sim_s' = 0
    /\ traj' = <<>>
    /\ fired' = <<>>
    /\ steps' = <<>>
    /\ cr_pc' = "running"
    /\ UNCHANGED <<stack, depth, exc>>
    /\ UNCHANGED <<cr_mode, cr_interventions, cr_nsamples, cr_x, cr_handlers,
                   cr_samples, cr_result, cr_error, cr_nevals, cr_memo, cr_requests, rng_other>>

\* The solver has reached the time of a static event: its callback runs on
\* the model instance (dynamics.__self__). Of several events due at the same
\* time any may run next.
SimFire ==
    /\ cr_pc = "running"
    /\ sim_t < EndTime
    /\ \E i \in Due(sim_t) :
          LET out == Callback(attr, stack[i].intervention)
          IN /\ attr' = out.attr
             /\ fired' = Append(fired, [pos |-> i, eval |-> stack[i].eval,
                                        index |-> stack[i].index, time |-> sim_t,
                                        intervention |-> stack[i].intervention,
                                        before |-> attr, after |-> out.attr,
                                        error |-> out.error])
             /\ exc' = out.error
             /\ cr_pc' = IF out.error = "none" THEN "running" ELSE "exiting"
    /\ UNCHANGED <<stack, depth, attr0, sim_t, sim_s, traj, steps>>
    /\ UNCHANGED <<cr_mode, cr_interventions, cr_nsamples, cr_x, cr_handlers,
                   cr_samples, cr_result, cr_error, cr_nevals, cr_memo, cr_requests, rng, rng_other>>

\* The solver integrates to the next time under the current parameters and
\* logs the state at a logging time; an invalid parameter raises.
SimAdvance ==
    /\ cr_pc = "running"
    /\ sim_t < EndTime
    /\ Due(sim_t) = {}
    /\ IF ParamsValid(attr)
       THEN /\ sim_s' = sim_s + Deriv(attr)
            /\ sim_t' = sim_t + 1
            /\ traj' = IF sim_t + 1 \in LoggingTimes
                       THEN Append(traj, sim_s + Deriv(attr)) ELSE traj
            /\ steps' = Append(steps, [time |-> sim_t, attr |-> attr, state |-> sim_s])
            /\ UNCHANGED <<exc, cr_pc>>
       ELSE /\ exc' = "ValueError"
            /\ cr_pc' = "exiting"
            /\ UNCHANGED <<sim_s, sim_t, traj, steps>>
    /\ UNCHANGED <<stack, depth, attr, attr0, fired>>
    /\ UNCHANGED <<cr_mode, cr_interventions, cr_nsamples, cr_x, cr_handlers,
                   cr_samples, cr_result, cr_error, cr_nevals, cr_memo, cr_requests, rng, rng_other>>

\* self.model(...) returns at end_time
SimModelReturn ==
    /\ cr_pc = "running"
    /\ sim_t = EndTime
    /\ cr_pc' = "exiting"
    /\ UNCHANGED varsSim
    /\ UNCHANGED <<cr_mode, cr_interventions, cr_nsamples, cr_x, cr_handlers,
                   cr_samples, cr_result, cr_error, cr_nevals, cr_memo, cr_requests, rng, rng_other>>

\* The ExitStack leaves the handler entered last
SimExitHandler ==
    /\ cr_pc = "exiting"
    /\ depth > 1
    /\ stack' = LeaveScope(stack, exc)
    /\ depth' = depth - 1
    /\ UNCHANGED <<attr, attr0, sim_t, sim_s, traj, fired, steps, exc>>
    /\ UNCHANGED varsCR

\* The TorchDiffEq scope is left and wrapped_model returns or raises: the
\* trajectory is collected, or the exception leaves Predictive and __call__.
SimExitSolver ==
    /\ cr_pc = "exiting"
    /\ depth = 1
    /\ stack' = LeaveScope(stack, exc)
    /\ depth' = 0
    /\ IF exc = "none"
       THEN /\ cr_samples' = Append(cr_samples, traj)
            /\ cr_pc' = IF cr_mode = "risk" THEN "sampling" ELSE "done"
            /\ UNCHANGED <<cr_result, cr_error, cr_nevals, cr_memo>>
       ELSE LET out == IF cr_mode = "risk" THEN CallReturn(<<>>, exc)
                       ELSE [result |-> None, error |-> exc]
            IN /\ cr_samples' = <<>>
               /\ cr_pc' = IF cr_mode = "risk" THEN "idle" ELSE "done"
               /\ cr_result' = out.result
               /\ cr_error' = out.error
               /\ cr_nevals' = cr_nevals + 1
               /\ cr_memo' \in IF cr_mode = "risk"
                                THEN Remember(cr_memo, cr_x, out.result, out.error,
                                              cr_nevals + 1)
                                ELSE {cr_memo}
    /\ UNCHANGED <<attr, attr0, sim_t, sim_s, traj, fired, steps, exc>>
    /\ UNCHANGED <<cr_mode, cr_interventions, cr_nsamples, cr_x, cr_handlers,
                   cr_requests, rng, rng_other>>

\* sample_qoi = self.qoi(samples); return self.risk_measure(sample_qoi)
CRReduce ==
    /\ cr_pc = "sampling"
    /\ cr_mode = "risk"
    /\ Len(cr_samples) = cr_nsamples
    /\ LET out == CallReturn(cr_samples, "none")
       IN /\ cr_result' = out.result
          /\ cr_error' = out.error
          /\ cr_memo' \in Remember(cr_memo, cr_x, out.result, out.error, cr_nevals + 1)
    /\ cr_nevals' = cr_nevals + 1
    /\ cr_pc' = "idle"
    /\ UNCHANGED <<cr_mode, cr_interventions, cr_nsamples, cr_x, cr_handlers,
                   cr_samples, cr_requests, rng, rng_other>>
    /\ UNCHANGED varsSim

\* ---- the superquantile
MaxSampleLen == 3
MaxValue == 2
\* Levels are counted in tenths; 0 and LevelUnit stand for the two boundaries.
LevelUnit == 10
Levels == 0..LevelUnit
SampleArgs == UNION {[1..n -> 0..MaxValue] : n \in 1..MaxSampleLen}

RECURSIVE SeqSum(_)
SeqSum(z) == IF z = <<>> THEN 0 ELSE Head(z) + SeqSum(Tail(z))
\* The k-th smallest value of z (k from 1).
Kth(z, k) ==
    CHOOSE v \in {z[i] : i \in 1..Len(z)} :
        /\ Cardinality({i \in 1..Len(z) : z[i] < v}) < k
        /\ k <= Cardinality({i \in 1..Len(z) : z[i] <= v})
SampleMax(z) == Kth(z, Len(z))
\* The empirical quantile of z at `level` tenths, times LevelUnit: the value
\* at position (n - 1) * level / LevelUnit of the sorted sample, interpolated
\* linearly between its two neighbours.
EmpiricalQuantile(z, level) ==
    LET pos == (Len(z) - 1) * level
        lo == pos \div LevelUnit
        frac == pos % LevelUnit
        below == Kth(z, lo + 1)
        above == IF lo + 2 <= Len(z) THEN Kth(z, lo + 2) ELSE below
    IN LevelUnit * below + frac * (above - below)
\* The mean of the values of z at or above its quantile at `level`, as the
\* sum and the number of those values.
LowerTailMut(z, level) ==
    LET tail == {i \in 1..Len(z) : LevelUnit * z[i] <= EmpiricalQuantile(z, level)}
    IN [sum |-> SeqSum([i \in 1..Len(z) |-> IF i \in tail THEN z[i] ELSE 0]),
        count |-> Cardinality(tail)]
UpperTailMean(z, level) ==
    LET tail == {i \in 1..Len(z) : LevelUnit * z[i] >= EmpiricalQuantile(z, level)}
    IN [sum |-> SeqSum([i \in 1..Len(z) |-> IF i \in tail THEN z[i] ELSE 0]),
        count |-> Cardinality(tail)]
\* alpha_superquantile(z, alpha): the mean of the sample values at or above
\* the empirical (1 - alpha)-quantile
alpha_superquantile(z, alpha) == UpperTailMean(z, LevelUnit - alpha)

\* Means are compared as fractions.
MeanLeq(a, b) == a.sum * b.count <= b.sum * a.count
MeanIs(a, num, den) == a.sum * den = num * a.count

RiskIdle ==
    /\ rm_pc = "idle"
    /\ rm_sample = <<>>
    /\ rm_a1 = 0
    /\ rm_a2 = 0
    /\ rm_r1 = None
    /\ rm_r2 = None

\* The risk of the sample at the lower level, then at the higher one.
RiskFirst ==
    /\ rm_pc = "ready"
    /\ rm_r1' = Some(alpha_superquantile(rm_sample, rm_a1))
    /\ rm_pc' = "first"
    /\ UNCHANGED <<rm_sample, rm_a1, rm_a2, rm_r2>>
RiskSecond ==
    /\ rm_pc = "first"
    /\ rm_r2' = Some(alpha_superquantile(rm_sample, rm_a2))
    /\ rm_pc' = "done"
    /\ UNCHANGED <<rm_sample, rm_a1, rm_a2, rm_r1>>

\* The caller's second run: the same requests as event functions, from the
\* same seed.
DynRerun ==
    /\ cr_mode = "direct"
    /\ cr_pc = "done"
    /\ ~twin.set
    /\ AllTimed(cr_requests)
    /\ twin' = [set |-> TRUE, seed |-> twin.seed, traj |-> traj, attr |-> attr,
                attr0 |-> attr0, fired |-> FiredSummary, error |-> cr_error]
    /\ cr_handlers' = DynamicHandlers(cr_requests)
    /\ rng' = twin.seed
    /\ cr_pc' = "sampling"
    /\ cr_samples' = <<>>
    /\ cr_error' = "none"
    /\ UNCHANGED <<cr_mode, cr_interventions, cr_nsamples, cr_x, cr_result, cr_nevals,
                   cr_memo, cr_requests, rng_other>>
    /\ UNCHANGED varsSim

vars == <<varsRDB, varsOUU, varsCR, varsSim, varsTwin, varsRisk>>

\* ---------------------------------------------------------- specifications
\* RandomDisplacementBounds on its own
InitRDB == RDBIdle /\ OUUIdle /\ CRIdle /\ SimIdle /\ TwinIdle /\ RiskIdle
NextRDB ==
    \/ RDBNew /\ UNCHANGED <<varsOUU, varsCR, varsSim, varsTwin, varsRisk>>
    \/ RDBCall /\ UNCHANGED <<varsOUU, varsCR, varsSim, varsTwin, varsRisk>>
SpecRDB == InitRDB /\ [][NextRDB]_vars

\* solveOUU.solve()
InitOUU == RDBIdle /\ OUUIdle /\ CRIdle /\ SimIdle /\ TwinIdle /\ RiskIdle
NextOUU ==
    \/ OUUNew /\ UNCHANGED <<varsRDB, varsCR, varsSim, varsTwin, varsRisk>>
    \/ OUUSolveStart /\ UNCHANGED <<varsRDB, varsCR, varsSim, varsTwin, varsRisk>>
    \/ OUUHop /\ UNCHANGED <<varsRDB, varsCR, varsSim, varsTwin, varsRisk>>
    \/ OUUReturn /\ UNCHANGED <<varsRDB, varsCR, varsSim, varsTwin, varsRisk>>
SpecOUU == InitOUU /\ [][NextOUU]_vars

\* solve() on a constructed solveOUU, followed to its end: the one-dimensional
\* box, the constructor's default minimizer_kwargs, every start point,
\* objective, constraint set, maxiter and maxfeval. solve() is a sequential
\* loop that nothing suspends, so each of its steps is taken when it can be.
InitOUULive ==
    /\ RDBIdle /\ CRIdle /\ SimIdle /\ TwinIdle /\ RiskIdle
    /\ ouu_pc = "built"
    /\ ouu_bounds = << <<0>>, <<MaxCoord>> >>
    /\ ouu_x0 \in StartPoints(ouu_bounds)
    /\ ouu_objfun \in Objectives
    /\ ouu_cons \in ConstraintSets
    /\ ouu_maxiter \in 0..MaxIter
    /\ ouu_maxfeval \in 1..MaxFeval
    /\ ouu_kwargs = DefaultKwargs
    /\ ouu_minimizer_kwargs = DictUpdate(DefaultKwargs)
    /\ ouu_step = 0
    /\ ouu_x = <<>>
    /\ ouu_fun = 0
    /\ ouu_best = [x |-> <<>>, fun |-> 0, nfev |-> 0, nit |-> 0, success |-> FALSE]
    /\ ouu_nstep = 0
    /\ ouu_proposal = <<>>
    /\ ouu_nfev = 0
    /\ ouu_pbar = 0
    /\ ouu_result = <<>>
    /\ ouu_used = NoUsed
    /\ ouu_nit = 0
    /\ ouu_nsearch = 0
NextOUULive ==
    \/ OUUSolveStart /\ UNCHANGED <<varsRDB, varsCR, varsSim, varsTwin, varsRisk>>
    \/ OUUHop /\ UNCHANGED <<varsRDB, varsCR, varsSim, varsTwin, varsRisk>>
    \/ OUUReturn /\ UNCHANGED <<varsRDB, varsCR, varsSim, varsTwin, varsRisk>>
SpecOUULive == InitOUULive /\ [][NextOUULive]_vars /\ WF_vars(NextOUULive)

\* The evaluations of one computeRisk instance
InitCR == RDBIdle /\ OUUIdle /\ CRIdle /\ SimIdle /\ TwinIdle /\ RiskIdle
NextCR ==
    \/ CRNew /\ UNCHANGED <<varsRDB, varsOUU, varsTwin, varsRisk>>
    \/ RngUse /\ UNCHANGED <<varsRDB, varsOUU, varsTwin, varsRisk>>
    \/ CRCall /\ UNCHANGED <<varsRDB, varsOUU, varsTwin, varsRisk>>
    \/ SimEnterSolver /\ UNCHANGED <<varsRDB, varsOUU, varsTwin, varsRisk>>
    \/ SimEnterHandler /\ UNCHANGED <<varsRDB, varsOUU, varsTwin, varsRisk>>
    \/ SimModelStart /\ UNCHANGED <<varsRDB, varsOUU, varsTwin, varsRisk>>
    \/ SimFire /\ UNCHANGED <<varsRDB, varsOUU, varsTwin, varsRisk>>
    \/ SimAdvance /\ UNCHANGED <<varsRDB, varsOUU, varsTwin, varsRisk>>
    \/ SimModelReturn /\ UNCHANGED <<varsRDB, varsOUU, varsTwin, varsRisk>>
    \/ SimExitHandler /\ UNCHANGED <<varsRDB, varsOUU, varsTwin, varsRisk>>
    \/ SimExitSolver /\ UNCHANGED <<varsRDB, varsOUU, varsTwin, varsRisk>>
    \/ CRReduce /\ UNCHANGED <<varsRDB, varsOUU, varsTwin, varsRisk>>
SpecCR == InitCR /\ [][NextCR]_vars

\* One simulation under handlers entered directly:
\*     with TorchDiffEq(): with StaticParameterIntervention(...): simulate(...)
InitSim ==
    /\ RDBIdle /\ OUUIdle /\ SimIdle /\ TwinIdle /\ RiskIdle
    /\ cr_pc = "sampling"
    /\ cr_mode = "direct"
    /\ cr_interventions = <<>>
    /\ cr_nsamples = 1
    /\ cr_x = <<>>
    /\ cr_requests \in DirectRequests
    /\ cr_handlers = DirectHandlers(cr_requests)
    /\ cr_samples = <<>>
    /\ cr_result = None
    /\ cr_error = "none"
    /\ cr_nevals = 0
    /\ cr_memo = NoMemo
    /\ rng \in 0..(RngPeriod - 1)
    /\ rng_other = 0
NextSim ==
    \/ SimEnterSolver /\ UNCHANGED <<varsRDB, varsOUU, varsTwin, varsRisk>>
    \/ SimEnterHandler /\ UNCHANGED <<varsRDB, varsOUU, varsTwin, varsRisk>>
    \/ SimModelStart /\ UNCHANGED <<varsRDB, varsOUU, varsTwin, varsRisk>>
    \/ SimFire /\ UNCHANGED <<varsRDB, varsOUU, varsTwin, varsRisk>>
    \/ SimAdvance /\ UNCHANGED <<varsRDB, varsOUU, varsTwin, varsRisk>>
    \/ SimModelReturn /\ UNCHANGED <<varsRDB, varsOUU, varsTwin, varsRisk>>
    \/ SimExitHandler /\ UNCHANGED <<varsRDB, varsOUU, varsTwin, varsRisk>>
    \/ SimExitSolver /\ UNCHANGED <<varsRDB, varsOUU, varsTwin, varsRisk>>
SpecSim == InitSim /\ [][NextSim]_vars

\* The risk measure applied to one sample at two levels a1 <= a2.
InitRisk ==
    /\ RDBIdle /\ OUUIdle /\ CRIdle /\ SimIdle /\ TwinIdle
    /\ rm_pc = "ready"
    /\ rm_sample \in SampleArgs
    /\ rm_a1 \in Levels
    /\ rm_a2 \in {a \in Levels : rm_a1 <= a}
    /\ rm_r1 = None
    /\ rm_r2 = None
NextRisk ==
    \/ RiskFirst /\ UNCHANGED <<varsRDB, varsOUU, varsCR, varsSim, varsTwin>>
    \/ RiskSecond /\ UNCHANGED <<varsRDB, varsOUU, varsCR, varsSim, varsTwin>>
SpecRisk == InitRisk /\ [][NextRisk]_vars

\* The twin runs: a simulation under static handlers and then, from the same
\* seed, under the same interventions as dynamic handlers; a request whose
\* event function reads the state is run under its dynamic handler only.
InitDyn ==
    /\ RDBIdle /\ OUUIdle /\ SimIdle /\ RiskIdle
    /\ cr_pc = "sampling"
    /\ cr_mode = "direct"
    /\ cr_interventions = <<>>
    /\ cr_nsamples = 1
    /\ cr_x = <<>>
    /\ cr_requests \in DynRequests
    /\ cr_handlers = IF AllTimed(cr_requests) THEN StaticHandlers(cr_requests)
                     ELSE DynamicHandlers(cr_requests)
    /\ cr_samples = <<>>
    /\ cr_result = None
    /\ cr_error = "none"
    /\ cr_nevals = 0
    /\ cr_memo = NoMemo
    /\ rng \in 0..(RngPeriod - 1)
    /\ rng_other = 0
    /\ twin = [NoTwin EXCEPT !.seed = rng]
NextDyn ==
    \/ SimEnterSolver /\ UNCHANGED <<varsRDB, varsOUU, varsTwin, varsRisk>>
    \/ SimEnterHandler /\ UNCHANGED <<varsRDB, varsOUU, varsTwin, varsRisk>>
    \/ SimModelStart /\ UNCHANGED <<varsRDB, varsOUU, varsTwin, varsRisk>>
    \/ SimFire /\ UNCHANGED <<varsRDB, varsOUU, varsTwin, varsRisk>>
    \/ SimAdvance /\ UNCHANGED <<varsRDB, varsOUU, varsTwin, varsRisk>>
    \/ SimModelReturn /\ UNCHANGED <<varsRDB, varsOUU, varsTwin, varsRisk>>
    \/ SimExitHandler /\ UNCHANGED <<varsRDB, varsOUU, varsTwin, varsRisk>>
    \/ SimExitSolver /\ UNCHANGED <<varsRDB, varsOUU, varsTwin, varsRisk>>
    \/ DynRerun /\ UNCHANGED <<varsRDB, varsOUU, varsRisk>>
SpecDyn == InitDyn /\ [][NextDyn]_vars

\* ------------------------------------------------------------------ claims

InBox(x, xmin, xmax) == \A i \in 1..Len(x) : xmin[i] <= x[i] /\ x[i] <= xmax[i]

\* C4: every point returned by RandomDisplacementBounds.__call__(x) lies
\* component-wise within [xmin, xmax], whatever x (inside or outside the box),
\* the stepsize and the random draw.
C4_CallStaysInBox ==
    rdb_pc = "called" => InBox(rdb_xnew, rdb_xmin, rdb_xmax)

\* C4 witness: a call whose input lies so far above the box that every draw
\* proposes a point outside it, and the point returned is the clipped corner.
C4_Witness ==
    /\ rdb_pc = "called"
    /\ \E i \in 1..Len(rdb_x) :
          /\ rdb_x[i] - Abs(rdb_stepsize) > rdb_xmax[i]
          /\ rdb_xnew[i] = rdb_xmax[i]

\* C5 (the claim as stated): an explicitly given stepsize, whatever its
\* value, is the one the object uses; only an omitted stepsize is replaced by
\* 0.3 * ||xmax - xmin||.
C5_ExplicitStepsizeUsed ==
    rdb_pc # "new" =>
        /\ (rdb_arg.given => rdb_stepsize = rdb_arg.value)
        /\ (~rdb_arg.given => rdb_stepsize = DerivedStepsize(rdb_xmin, rdb_xmax))

\* C3 (the claim as stated): every component of the policy solve() returns
\* lies within [u_bounds[0, i], u_bounds[1, i]], for any x0, objective,
\* constraint set, maxiter and maxfeval.
C3_ResultInBounds ==
    ouu_pc = "done" => InBox(ouu_result, ouu_bounds[1], ouu_bounds[2])

\* C1 (the claim as stated): an evaluation of an x that does not have exactly
\* one component per entry of the interventions mapping, too short or too
\* long, ends with ValueError and returns no value.
C1_WrongLengthIsValueError ==
    (cr_mode = "risk" /\ cr_pc = "idle" /\ cr_nevals > 0
        /\ Len(cr_x) # Len(cr_interventions))
    => (cr_error = "ValueError" /\ cr_result = None)

\* C2: for one computeRisk instance, an evaluation of x ends as every earlier
\* evaluation of the same x ended (the same risk value, or the same error),
\* whatever was evaluated and whatever was drawn from the generator in
\* between.
C2_SameArgumentSameRisk ==
    (cr_mode = "risk" /\ cr_pc = "idle" /\ cr_nevals > 0
        /\ cr_memo.set /\ cr_memo.x = cr_x)
    => (cr_result = cr_memo.result /\ cr_error = cr_memo.error)

\* C2 witness: x is evaluated to a risk value a second time, after an
\* evaluation of another argument and after other draws from the generator.
C2_Witness ==
    /\ cr_mode = "risk" /\ cr_pc = "idle"
    /\ cr_memo.set /\ cr_memo.x = cr_x /\ cr_memo.at < cr_nevals
    /\ cr_memo.others > 0
    /\ rng_other > 0
    /\ cr_result.given /\ cr_result = cr_memo.result

\* The time asked for the handler built (or given) at place i.
ExpectedTime(i) ==
    IF cr_mode = "risk" THEN cr_interventions[i][1] ELSE cr_requests[i].time
Inside(t) == StartTime < t /\ t < EndTime
HandlerPositions == {i \in 1..Len(stack) : stack[i].kind = "handler"}
\* The handlers of the running simulation, by their place in the list.
Handlers == 1..Len(cr_handlers)
FiredCount(i) == Cardinality({k \in 1..Len(fired) : fired[k].index = i})
InSimulation == cr_pc \in {"running", "exiting"}

\* C6: within one simulation a static intervention asked for time t fires
\* only at t, at most once, and exactly once by the time the solver has
\* passed t when t lies inside the interval; asked for a time outside the
\* interval it never fires, and a simulation all of whose interventions lie
\* outside changes no parameter, follows the trajectory of the model without
\* handlers and raises nothing.
C6_FiresOnceInsideNeverOutside ==
    InSimulation =>
        /\ \A k \in 1..Len(fired) :
              /\ fired[k].time = ExpectedTime(fired[k].index)
              /\ Inside(fired[k].time)
        /\ \A i \in Handlers :
              /\ FiredCount(i) <= 1
              /\ (Inside(ExpectedTime(i)) /\ ExpectedTime(i) < sim_t /\ exc = "none")
                  => FiredCount(i) = 1
              /\ ~Inside(ExpectedTime(i)) => FiredCount(i) = 0
        /\ (\A i \in Handlers : ~Inside(ExpectedTime(i)))
              => /\ attr = attr0
                 /\ exc = "none"
                 /\ traj = SubSeq(RefTraj(attr0), 1, Len(traj))

\* C6 witness: a simulation under an intervention after the end of the
\* interval and one inside it has returned: the one inside has fired once, at
\* its time, and the other has not.
C6_Witness ==
    /\ cr_mode = "direct" /\ cr_pc = "exiting" /\ exc = "none" /\ sim_t = EndTime
    /\ Len(cr_requests) = 2
    /\ cr_requests[1].time > EndTime /\ Inside(cr_requests[2].time)
    /\ Len(fired) = 1 /\ fired[1].index = 2 /\ fired[1].time = cr_requests[2].time
    /\ attr # attr0

\* The value an assignment leaves on an attribute that held old.
Expected(a, old) == IF a.kind = "fn" THEN ApplyFn(a.fn, old) ELSE a.value

\* Firing k is the last one, up to time t, that assigns to target.
LastOn(k, target, t) ==
    \A l \in (k + 1)..Len(fired) :
        fired[l].time <= t =>
            \A j \in 1..Len(fired[l].intervention) : fired[l].intervention[j][1] # target

\* C7: in a simulation under static interventions every state logged at a
\* time before each intervention's time equals the state the model logs
\* without handlers, and every integration step from an intervention's time
\* on uses the value it assigned (until a later firing assigns the target
\* again).
C7_IdenticalBeforeMutatedAfter ==
    InSimulation =>
        /\ \A j \in 1..Len(traj) :
              (\A i \in Handlers :
                  Inside(ExpectedTime(i)) => StartTime + j * LoggingStep < ExpectedTime(i))
              => traj[j] = RefTraj(attr0)[j]
        /\ \A n \in 1..Len(steps), k \in 1..Len(fired) :
              (fired[k].error = "none" /\ fired[k].time <= steps[n].time)
              => \A j \in 1..Len(fired[k].intervention) :
                    LET target == fired[k].intervention[j][1]
                        a == fired[k].intervention[j][2]
                    IN LastOn(k, target, steps[n].time)
                         => steps[n].attr[target] = Expected(a, fired[k].before[target])

\* C7 witness: a finished simulation whose intervention fired after a logged
\* time and before another: the first logged state is the one of the model
\* without handlers, the last is not.
C7_Witness ==
    /\ cr_pc = "exiting" /\ exc = "none" /\ sim_t = EndTime
    /\ Len(fired) = 1 /\ fired[1].time = StartTime + 2
    /\ Len(traj) = 3
    /\ traj[1] = RefTraj(attr0)[1]
    /\ traj[3] # RefTraj(attr0)[3]
    /\ steps[Len(steps)].attr # attr0

\* C8: when a parameter intervention fires on a model that has every target
\* of its mapping, each target ends up holding assignment(old value) for a
\* function and the assignment itself for a constant, the old value being the
\* attribute's value when the callback ran.
C8_CallbackAssignsEachTarget ==
    \A k \in 1..Len(fired) :
        (\A j \in 1..Len(fired[k].intervention) :
            fired[k].intervention[j][1] \in DOMAIN fired[k].before)
        => /\ fired[k].error = "none"
           /\ \A j \in 1..Len(fired[k].intervention) :
                 LET target == fired[k].intervention[j][1]
                     a == fired[k].intervention[j][2]
                 IN fired[k].after[target] =
                        (IF a.kind = "fn" THEN ApplyFn(a.fn, fired[k].before[target])
                         ELSE a.value)

\* C8 witness: a callback with a function for one target and a constant for
\* another has run and changed both.
C8_Witness ==
    \E k \in 1..Len(fired) :
        /\ Len(fired[k].intervention) = 2
        /\ fired[k].intervention[1][2].kind = "fn"
        /\ fired[k].intervention[2][2].kind = "const"
        /\ fired[k].after["beta"] = fired[k].before["beta"] + 1
        /\ fired[k].after["gamma"] = 3 /\ fired[k].before["gamma"] # 3

\* C9: a handler is on the handler stack only inside the scope of the
\* simulation it was entered for: outside wrapped_model the stack is empty,
\* whether the simulation returned or raised, inside it the stack holds the
\* solver and at most the handlers of the running evaluation, and only those
\* fire.
C9_RegisteredOnlyInScope ==
    /\ cr_pc \in {"off", "idle", "sampling", "done"} => stack = <<>>
    /\ cr_pc \in {"entering", "running", "exiting"} =>
          /\ Len(stack) <= 1 + Len(cr_handlers)
          /\ \A i \in HandlerPositions : stack[i].eval = cr_nevals
    /\ InSimulation => \A k \in 1..Len(fired) : fired[k].eval = cr_nevals

\* C9 witness: after an evaluation left its scopes by an exception, a later
\* evaluation runs a simulation in which its own handler fires.
C9_Witness ==
    /\ cr_mode = "risk" /\ cr_pc = "running"
    /\ cr_memo.set /\ cr_memo.error = "ValueError" /\ cr_memo.at <= cr_nevals
    /\ Len(fired) >= 1 /\ fired[1].eval = cr_nevals
    /\ Len(stack) = 1 + Len(cr_handlers)

\* C12 (the claim as stated): an intervention that names a target the model
\* instance does not have is rejected before any simulation work: when the
\* AttributeError is raised no integration step has been taken and no
\* attribute of the model has been written.
C12_UnknownTargetFailsFast ==
    (InSimulation /\ exc = "AttributeError") => (steps = <<>> /\ attr = attr0)

\* C13: when wrapped_model raises during an evaluation (the sampling
\* machinery or the model raised), the evaluation ends at once with that same
\* exception: no samples reach qoi and risk_measure and __call__ returns no
\* value.
C13_ErrorPropagatesUnchanged ==
    [][(cr_mode = "risk" /\ cr_pc = "exiting" /\ depth = 1 /\ exc # "none")
        => (/\ cr_pc' = "idle"
            /\ cr_error' = exc
            /\ cr_result' = None
            /\ cr_samples' = <<>>
            /\ cr_nevals' = cr_nevals + 1)]_vars

\* C13 witness: an evaluation whose model raised ValueError after it had
\* integrated some steps has ended with ValueError and without a value.
C13_Witness ==
    /\ cr_mode = "risk" /\ cr_pc = "idle" /\ cr_nevals > 0
    /\ exc = "ValueError" /\ cr_error = "ValueError"
    /\ cr_result = None
    /\ steps # <<>> /\ fired # <<>>

\* C14: solve() always terminates: it runs one local search from x0 and then
\* at most maxiter basin hops, one local search each (with maxiter = 0 the one
\* local search and no hop), and returns.
C14_SolveTerminates ==
    /\ <>(ouu_pc = "done")
    /\ [](/\ ouu_nstep <= ouu_maxiter
          /\ ouu_pc \in {"hopping", "done"} => ouu_nsearch = 1 + ouu_nstep
          /\ ouu_pc = "done" => ouu_nstep = ouu_maxiter)

\* C14 witness: a solve() with maxiter > 0 has returned after maxiter hops.
C14_Witness ==
    /\ ouu_pc = "done"
    /\ ouu_maxiter > 0
    /\ ouu_nstep = ouu_maxiter
    /\ ouu_nsearch = 1 + ouu_maxiter

\* C16 (the claim as stated, for the iteration count): no optimization work
\* is done for a non-positive iteration count: solve() never runs a local
\* search, and never returns a result, when maxiter <= 0.
C16_NonPositiveCountsRejected ==
    ouu_maxiter <= 0 => ouu_pc \in {"new", "built"}

\* C18 (the claim as stated): the local-search method and tolerance handed to
\* the constructor in minimizer_kwargs are the ones the search of solve() is
\* run with.
C18_SuppliedKwargsUsed ==
    ouu_pc \in {"hopping", "done"} =>
        /\ ouu_used.method = ouu_kwargs.method
        /\ ouu_used.tol = ouu_kwargs.tol

Assigns(k, p) ==
    \E j \in 1..Len(fired[k].intervention) : fired[k].intervention[j][1] = p

C17_DynamicAtTimeEqualsStatic ==
    (cr_mode = "direct" /\ cr_pc = "done" /\ twin.set) =>
        /\ FiredSummary = twin.fired
        /\ attr0 = twin.attr0
        /\ attr = twin.attr
        /\ traj = twin.traj
        /\ cr_error = twin.error
        /\ cr_error = "none" =>
              \A i \in 1..Len(cr_requests) :
                  Inside(cr_requests[i].time) =>
                      \E k \in 1..Len(fired) :
                          /\ fired[k].index = i
                          /\ fired[k].time = cr_requests[i].time
                          /\ \A l \in 1..Len(fired) : fired[l].index = i => l = k

\* C17 witness: both runs have ended, the dynamic handler fired once at its
\* time and changed a parameter, and the trajectory differs from the one of
\* the model without handlers.
C17_Witness ==
    /\ cr_mode = "direct" /\ cr_pc = "done" /\ twin.set
    /\ Len(cr_requests) = 1
    /\ cr_handlers[1].event = "zero"
    /\ Len(fired) = 1 /\ fired[1].time = cr_requests[1].time
    /\ attr # attr0
    /\ traj = twin.traj /\ traj # RefTraj(attr0)

Evaluating ==
    cr_mode = "risk" /\ cr_pc \in {"sampling", "entering", "running", "exiting"}

\* C21: propagate_uncertainty(x) builds exactly one static handler per entry
\* of the interventions mapping, in the mapping's order: the handler of the
\* i-th entry is a static one at that entry's time whose only assignment is
\* x[i] to that entry's parameter (so no component serves two handlers and
\* every handler has its component), and when it fires it fires at that time
\* and leaves x[i] on that parameter and the other parameters as they were.
C21_OneHandlerPerEntry ==
    Evaluating =>
        /\ Len(cr_handlers) = Len(cr_interventions)
        /\ Len(cr_x) >= Len(cr_interventions)
        /\ \A i \in 1..Len(cr_handlers) :
              /\ cr_handlers[i].event = "static"
              /\ cr_handlers[i].time = cr_interventions[i][1]
              /\ cr_handlers[i].intervention =
                    << <<cr_interventions[i][2], Const(cr_x[i])>> >>
        /\ InSimulation =>
              \A k \in 1..Len(fired) :
                  LET i == fired[k].index
                  IN /\ i \in 1..Len(cr_interventions)
                     /\ fired[k].time = cr_interventions[i][1]
                     /\ fired[k].after[cr_interventions[i][2]] = cr_x[i]
                     /\ \A p \in ParamNames \ {cr_interventions[i][2]} :
                           fired[k].after[p] = fired[k].before[p]

\* C21 witness: under a mapping of two entries and an x of two different
\* components, both handlers have fired, each with its own component.
C21_Witness ==
    /\ Evaluating /\ cr_pc = "running"
    /\ Len(cr_interventions) = 2 /\ Len(cr_x) = 2 /\ cr_x[1] # cr_x[2]
    /\ Len(fired) = 2
    /\ fired[1].index = 1 /\ fired[1].after[cr_interventions[1][2]] = cr_x[1]
    /\ fired[2].index = 2 /\ fired[2].after[cr_interventions[2][2]] = cr_x[2]

\* The stack of a simulation with the first n handlers of the evaluation
\* entered: the solver scope and then the handlers in the order of the list.
ScopesEntered(n) ==
    <<SolverScope>> \o [i \in 1..n |-> HandlerScope(cr_nevals, i, cr_handlers[i])]

\* C22: within one evaluation every simulation runs with all handlers of the
\* evaluation active at once, each of them entered once (the stack of a
\* running simulation holds each handler once) and exited once (none is left
\* between two simulations), and a static handler applies its assignment at
\* most once in a simulation although the same handlers serve all N
\* simulations.
C22_AllHandlersOncePerSimulation ==
    Evaluating =>
        /\ cr_pc = "running" => stack = ScopesEntered(Len(cr_handlers))
        /\ cr_pc = "entering" => stack = ScopesEntered(depth - 1)
        /\ cr_pc = "exiting" =>
              (depth >= 1 /\ depth <= 1 + Len(cr_handlers) /\ stack = ScopesEntered(depth - 1))
        /\ cr_pc = "sampling" => (stack = <<>> /\ depth = 0)
        /\ Len(cr_samples) <= cr_nsamples
        /\ InSimulation => \A i \in Handlers : FiredCount(i) <= 1

\* C22 witness: the second simulation of an evaluation runs under both
\* handlers of the evaluation, and both have fired in it, once each.
C22_Witness ==
    /\ Evaluating /\ cr_pc = "running"
    /\ cr_nsamples = 2 /\ Len(cr_samples) = 1
    /\ Len(cr_handlers) = 2
    /\ stack = ScopesEntered(2)
    /\ FiredCount(1) = 1 /\ FiredCount(2) = 1

\* C23: a successful __call__(x) returns risk_measure(qoi(samples)) for the
\* samples of the one propagation run for x, and the steps of an evaluation
\* come in order and once: the seed reset and the handler construction
\* before the sampling, the N trajectories appended one by one to an empty
\* collection, and the reduction at the end, which alone gives the result.
C23_ReturnsRiskOfQoIOfSamples ==
    /\ [](( cr_mode = "risk" /\ cr_pc = "idle" /\ cr_nevals > 0 /\ cr_error = "none")
            => /\ Len(cr_samples) = cr_nsamples
               /\ cr_result = Some(RiskMeasure(QoI(cr_samples))))
    /\ [][cr_mode = "risk" =>
            /\ (cr_pc = "idle" /\ cr_pc' = "sampling")
                  => /\ rng' = 0
                     /\ cr_samples' = <<>>
                     /\ cr_result' = None
                     /\ Len(cr_handlers') = Len(cr_interventions)
            /\ cr_samples' # cr_samples
                  => \/ cr_samples' = <<>>
                     \/ (cr_pc = "exiting" /\ exc = "none"
                         /\ cr_samples' = Append(cr_samples, traj))
            /\ cr_result' # cr_result => (cr_pc = "idle" \/ cr_pc' = "idle")
            /\ cr_nevals' # cr_nevals => (cr_nevals' = cr_nevals + 1 /\ cr_pc' = "idle")
            /\ cr_pc \notin {"off", "idle"}
                  => /\ cr_handlers' = cr_handlers
                     /\ cr_x' = cr_x
                     /\ rng' # rng => (cr_pc = "entering" /\ cr_pc' = "running")]_vars

\* C23 witness: an evaluation of two simulations under a handler that fired
\* has returned the risk of its two trajectories.
C23_Witness ==
    /\ cr_mode = "risk" /\ cr_pc = "idle" /\ cr_nevals > 0 /\ cr_error = "none"
    /\ cr_nsamples = 2 /\ Len(cr_samples) = 2
    /\ fired # <<>>
    /\ cr_result.given
    /\ cr_result.value = RiskMeasure(QoI(cr_samples))

\* C24 (the claim as stated): every local search of solve() evaluates the
\* objective at most maxfeval times and there are at most maxiter + 1 of
\* them (so at most maxfeval * (maxiter + 1) evaluations in all), and a step
\* that violates a constraint is never the point a local search returns: the
\* current point of basinhopping, once a local search has moved it away from
\* x0, satisfies the constraints.
C24_BudgetKeptAndViolatingStepRejected ==
    ouu_pc \in {"hopping", "done"} =>
        /\ ouu_nfev <= ouu_maxfeval
        /\ ouu_nsearch <= ouu_maxiter + 1
        /\ ouu_x # ouu_x0 => Violation(ouu_cons, ouu_x, ouu_bounds) = 0

\* C25: nothing of one evaluation persists into the next. The handlers of an
\* evaluation are built anew from its own x and only they are on the stack
\* and fire while it runs; a simulation starts from parameters drawn anew,
\* whatever the handlers of an earlier evaluation left on the model; and an
\* evaluation of x2 that follows evaluations of other arguments ends as the
\* evaluation of x2 that was the first one of the instance ended.
C25_NothingPersistsAcrossEvaluations ==
    /\ []((cr_mode = "risk" /\ cr_pc = "idle" /\ cr_nevals > 1
             /\ cr_memo.set /\ cr_memo.at = 1 /\ cr_memo.x = cr_x)
            => (cr_result = cr_memo.result /\ cr_error = cr_memo.error))
    /\ [](Evaluating =>
            /\ \A i \in HandlerPositions :
                  /\ stack[i].eval = cr_nevals
                  /\ stack[i].intervention = cr_handlers[stack[i].index].intervention
            /\ InSimulation =>
                  \A k \in 1..Len(fired) :
                      /\ fired[k].eval = cr_nevals
                      /\ fired[k].intervention[1][2] = Const(cr_x[fired[k].index]))
    /\ [][cr_mode = "risk" =>
            /\ (cr_pc = "idle" /\ cr_pc' = "sampling")
                  => \A i \in 1..Len(cr_handlers') :
                        cr_handlers'[i].intervention =
                            << <<cr_interventions[i][2], Const(cr_x'[i])>> >>
            /\ (cr_pc = "entering" /\ cr_pc' = "running")
                  => /\ attr' = attr0'
                     /\ attr0'["beta"] = PriorDraw(rng)
                     /\ attr0'["gamma"] = PriorDraw(RngNext(rng))]_vars

\* C25 witness: the argument of the first evaluation of the instance has
\* been evaluated again to the same risk value, after an evaluation of
\* another argument, its own handler having fired.
C25_Witness ==
    /\ cr_mode = "risk" /\ cr_pc = "idle" /\ cr_nevals >= 3
    /\ cr_memo.set /\ cr_memo.at = 1 /\ cr_memo.x = cr_x
    /\ cr_memo.others > 0
    /\ cr_result.given /\ cr_result = cr_memo.result
    /\ fired # <<>> /\ attr # attr0

\* The place of the first target of firing k that the model does not have.
FirstUnknown(k) ==
    CHOOSE j \in 1..Len(fired[k].intervention) :
        /\ fired[k].intervention[j][1] \notin DOMAIN fired[k].before
        /\ \A l \in 1..(j - 1) : fired[k].intervention[l][1] \in DOMAIN fired[k].before

\* C26: a firing whose mapping names a target the model does not have is
\* not atomic: when the AttributeError is raised the targets that come
\* before the unknown one hold their new values, the attributes that are
\* only named after it (or not at all) hold their old ones, and the model
\* keeps these values while the error leaves the simulation.
C26_PartialWriteOnUnknownTarget ==
    \A k \in 1..Len(fired) :
        fired[k].error = "AttributeError" =>
            LET m == fired[k].intervention
                j0 == FirstUnknown(k)
                early == {m[l][1] : l \in 1..(j0 - 1)}
            IN /\ \A l \in 1..(j0 - 1) :
                     (\A l2 \in 1..(j0 - 1) : m[l2][1] = m[l][1] => l2 = l)
                     => fired[k].after[m[l][1]] = Expected(m[l][2], fired[k].before[m[l][1]])
               /\ \A p \in ParamNames \ early : fired[k].after[p] = fired[k].before[p]
               /\ k = Len(fired)
               /\ exc = "AttributeError"
               /\ attr = fired[k].after

\* C26 witness: the simulation has ended with the AttributeError of a firing
\* on beta, delta, gamma: beta holds its new value and gamma its old one.
C26_Witness ==
    /\ cr_pc = "done" /\ cr_error = "AttributeError"
    /\ Len(fired) >= 1
    /\ LET f == fired[Len(fired)]
       IN /\ f.error = "AttributeError"
          /\ Len(f.intervention) = 3 /\ FirstUnknown(Len(fired)) = 2
          /\ f.after["beta"] = 3 /\ f.before["beta"] # 3
          /\ f.after["gamma"] = f.before["gamma"] /\ f.before["gamma"] # 3
          /\ attr = f.after

\* The parameters the mapping of firing k names.
Named(k) == {fired[k].intervention[j][1] : j \in 1..Len(fired[k].intervention)}

\* C27: a firing changes only the model attributes its mapping names: the
\* step that runs a callback leaves the simulation state, the time, the
\* logged trajectory and the scopes as they are, the model keeps the same
\* set of attributes, and every attribute the mapping does not name keeps
\* its value.
C27_FiringChangesOnlyNamedAttributes ==
    /\ [](\A k \in 1..Len(fired) :
             /\ DOMAIN fired[k].after = DOMAIN fired[k].before
             /\ \A p \in ParamNames \ Named(k) : fired[k].after[p] = fired[k].before[p])
    /\ [][Len(fired') = Len(fired) + 1 =>
            /\ sim_s' = sim_s
            /\ sim_t' = sim_t
            /\ traj' = traj
            /\ steps' = steps
            /\ stack' = stack
            /\ fired'[Len(fired')].before = attr
            /\ fired'[Len(fired')].after = attr'
            /\ DOMAIN attr' = DOMAIN attr
            /\ \A p \in ParamNames :
                  (\A j \in 1..Len(fired'[Len(fired')].intervention) :
                      fired'[Len(fired')].intervention[j][1] # p)
                  => attr'[p] = attr[p]]_vars

\* C27 witness: a callback that names beta alone has just run in the middle
\* of a simulation: beta is changed, gamma is not, and the state is the one
\* the solver had reached.
C27_Witness ==
    /\ cr_pc = "running"
    /\ Len(fired) = 1 /\ fired[1].time = sim_t /\ sim_t = StartTime + 2
    /\ Named(1) = {"beta"}
    /\ attr["beta"] = 3 /\ fired[1].before["beta"] # 3
    /\ attr["gamma"] = fired[1].before["gamma"]
    /\ sim_s > 0 /\ Len(steps) = 2 /\ sim_s = steps[2].state + Deriv(fired[1].before)

\* C28: for an input x inside the box every component of the point
\* RandomDisplacementBounds.__call__(x) returns differs from the component
\* of x by at most stepsize, and a call leaves xmin, xmax and stepsize as
\* they were and x as it was handed in.
C28_StepAtMostStepsize ==
    /\ []((rdb_pc = "called" /\ InBox(rdb_x, rdb_xmin, rdb_xmax))
            => \A i \in 1..Len(rdb_x) : Abs(rdb_xnew[i] - rdb_x[i]) <= rdb_stepsize)
    /\ [][rdb_pc' = "called" =>
            /\ rdb_xmin' = rdb_xmin
            /\ rdb_xmax' = rdb_xmax
            /\ rdb_stepsize' = rdb_stepsize
            /\ rdb_x' \in CallInputs
            /\ Len(rdb_xnew') = Len(rdb_x')]_vars

\* C28 witness: a call on a point inside the box has moved one component by
\* the whole stepsize and another, held back by the box, by less than the
\* draw.
C28_Witness ==
    /\ rdb_pc = "called"
    /\ rdb_stepsize > 0
    /\ Len(rdb_x) = 2
    /\ InBox(rdb_x, rdb_xmin, rdb_xmax)
    /\ Abs(rdb_xnew[1] - rdb_x[1]) = rdb_stepsize
    /\ rdb_xnew[2] = rdb_xmax[2] /\ rdb_x[2] = rdb_xmax[2]

\* C29: in every simulation of an evaluation the scopes nest strictly. The
\* stack holds the solver scope at the bottom and above it the handlers in
\* the order of the list; a scope is entered on top of the stack, the solver
\* first and then the handlers in the order they were built; the model runs
\* only under all of them; and, on return and on an exception alike, only
\* the innermost scope is left, so the handlers leave in the reverse order
\* of their entry and the solver scope leaves last.
C29_ScopesNestStrictly ==
    /\ [](cr_mode = "risk" =>
            /\ \A i \in 1..Len(stack) :
                  IF i = 1 THEN stack[i].kind = "solver"
                  ELSE stack[i].kind = "handler" /\ stack[i].index = i - 1
            /\ cr_pc = "running" => Len(stack) = 1 + Len(cr_handlers))
    /\ [][cr_mode = "risk" =>
            /\ Len(stack') > Len(stack)
                  => /\ cr_pc' = "entering"
                     /\ \E s \in {stack'[Len(stack')]} :
                           /\ stack' = Append(stack, s)
                           /\ IF stack = <<>> THEN s = SolverScope
                              ELSE s = HandlerScope(cr_nevals, Len(stack),
                                                    cr_handlers[Len(stack)])
            /\ Len(stack') < Len(stack)
                  => /\ cr_pc = "exiting"
                     /\ stack' = SubSeq(stack, 1, Len(stack) - 1)
            /\ Len(stack') = Len(stack) => stack' = stack
            /\ (cr_pc = "entering" /\ cr_pc' = "running")
                  => stack = ScopesEntered(Len(cr_handlers))
            /\ (cr_pc = "exiting" /\ cr_pc' # "exiting")
                  => (stack = <<SolverScope>> /\ stack' = <<>>)]_vars

\* C29 witness: a simulation under two handlers is being left by an
\* exception: the handler entered last has been exited, the first one and
\* the solver scope are still entered.
C29_Witness ==
    /\ cr_mode = "risk" /\ cr_pc = "exiting" /\ exc = "ValueError"
    /\ Len(cr_handlers) = 2
    /\ depth = 2
    /\ stack = ScopesEntered(1)
    /\ fired # <<>>

====
